---- MODULE Spec2Model ----
(***************************************************************************)
(* Model of src/Bat_Cap.py: the dual-meter battery logger.  main() opens   *)
(* two serial ports, sets the meters up and then, once per INTERVAL,       *)
(* fetches a voltage and a current, falls back to the last valid value on  *)
(* a miss, integrates energy and capacity and appends one CSV row.         *)
(*                                                                         *)
(* Representation.                                                         *)
(*  - Time is counted in ticks of 50 ms (TicksPerSecond ticks a second);   *)
(*    `now` is the wall clock relative to the start of the current cycle.  *)
(*  - A Python float is a record [k, v]: k = "num" with the integer v,     *)
(*    k = "nan", or k = "inf" with v the sign.  Voltages are in volts,     *)
(*    currents in milliamperes, power in milliwatts.  The arithmetic on    *)
(*    finite values is exact (no rounding): cumulative_energy_Wh holds n   *)
(*    for the value n / (3600 * 1000) Wh and cumulative_capacity_mAh holds *)
(*    n for n / 3600 mAh, so the division by 3600.0 is the unit.           *)
(*  - None is the record with k = "none".                                  *)
(***************************************************************************)
EXTENDS Integers, FiniteSets, Sequences, TLC

\* ---------------------------------------------------------------- bounds
\* Cycles of the `while True` loop a behaviour may start.
MaxCycles == 3

\* ------------------------------------------------------------- constants
\* Ticks in one second (the tick is time.sleep(0.05), the poll pause).
TicksPerSecond == 20
\* INTERVAL = 1 (seconds).
INTERVAL == 1
\* TIMEOUT = 1 (seconds): the port timeout a readline() blocks for.
TIMEOUT == 1
\* get_valid_reading(ser, timeout=0.8): the wait window, in ticks.
ReadWindow == 16
\* time.sleep(0.05) of the poll loop, in ticks.
PollSleep == 1
\* time.sleep(0.2) after the fetch command, in ticks.
FetchSettle == 4

\* ---------------------------------------------------------------- floats
Num(n) == [k |-> "num", v |-> n]
NaN == [k |-> "nan", v |-> 0]
PosInf == [k |-> "inf", v |-> 1]
NegInf == [k |-> "inf", v |-> -1]
None == [k |-> "none", v |-> 0]

IsNum(x) == x.k = "num"
IsNaN(x) == x.k = "nan"
IsInf(x) == x.k = "inf"

Sign(n) == IF n > 0 THEN 1 ELSE IF n < 0 THEN -1 ELSE 0

\* Python's a == b on floats: NaN is unequal to everything, itself included.
FEq(a, b) == ~IsNaN(a) /\ ~IsNaN(b) /\ a = b

\* Python's a * b on floats.
FMul(a, b) ==
    IF IsNaN(a) \/ IsNaN(b) THEN NaN
    ELSE IF IsNum(a) /\ IsNum(b) THEN Num(a.v * b.v)
    ELSE IF Sign(a.v) * Sign(b.v) = 0 THEN NaN
    ELSE [k |-> "inf", v |-> Sign(a.v) * Sign(b.v)]

\* Python's a + b on floats.
FAdd(a, b) ==
    IF IsNaN(a) \/ IsNaN(b) THEN NaN
    ELSE IF IsNum(a) /\ IsNum(b) THEN Num(a.v + b.v)
    ELSE IF IsInf(a) /\ IsInf(b) THEN (IF a.v = b.v THEN a ELSE NaN)
    ELSE IF IsInf(a) THEN a ELSE b

\* a <= b on floats (false when either is NaN).
FLeq(a, b) ==
    /\ ~IsNaN(a) /\ ~IsNaN(b)
    /\ \/ a = b
       \/ IsInf(a) /\ a.v < 0
       \/ IsInf(b) /\ b.v > 0
       \/ IsNum(a) /\ IsNum(b) /\ a.v <= b.v

\* ------------------------------------------------------ instrument input
\* What float(line.decode().strip()) can return for a reply of the voltage
\* meter (volts) and of the current meter (milliamperes): float() also
\* accepts the texts "nan", "inf" and "-inf".
VoltageReplies == {Num(10), NaN}
CurrentReplies == {Num(100), Num(-100), PosInf, NegInf}

\* Ticks a readline() that receives a line takes to return it (0.25 s).
LineDelays == {5}

\* --------------------------------------------------------------- state
VARIABLES
    pc,                       \* position of main()
    ser_voltage, ser_current, \* "unbound" (not in locals()), "open", "closed"
    last_valid_voltage, last_valid_current,
    voltage_reading, current_reading, power,
    energy_increment, capacity_increment,
    cumulative_energy_Wh, cumulative_capacity_mAh,
    now,                      \* time.time() - loop_start, in ticks
    start_time,               \* get_valid_reading's start_time (same clock)
    csvExists, csvHeaders, csvRows,   \* the file LOG_FILENAME
    lastSample,               \* the row log_data() wrote last
    inbuf,                    \* per port, "stale" when its input buffer holds
                              \* a line received before the cycle's reset
    exitCause,                \* the exception that ended the try block
    exitAt,                   \* the position it was raised at
    \* history variables (not program state)
    started,                  \* cycles begun (loop_start taken)
    cycles,                   \* cycles completed (cadence sleep done)
    persisted,                \* rows appended by this run
    fetches,                  \* :FETCh? commands written
    everValid,                \* channels whose read returned a value
    lastRet,                  \* per channel, the last value a read returned
    missed,                   \* channels whose read of this cycle returned None
    missRun,                  \* per channel, reads that returned None in a row
    allNominal,               \* every cycle so far used 10 V and 100 mA
    allCurrent100,            \* every cycle so far used 100 mA
    allNonNeg,                \* every cycle's power so far was NaN or >= 0
    readTook,                 \* duration of the read that just returned
    staleAccepted,            \* channels whose read returned a stale line
    dropped,                  \* channels whose stale line the reset that was
                              \* just made dropped
    restoreTried              \* channels whose teardown was attempted

vars == <<pc, ser_voltage, ser_current, last_valid_voltage, last_valid_current,
          voltage_reading, current_reading, power, energy_increment,
          capacity_increment, cumulative_energy_Wh, cumulative_capacity_mAh,
          now, start_time, csvExists, csvHeaders, csvRows, lastSample, exitCause,
          exitAt, started, cycles, persisted, fetches, everValid, lastRet, missed,
          missRun, allNominal, allCurrent100, allNonNeg, readTook,
          restoreTried, inbuf, staleAccepted, dropped>>

serVars == <<ser_voltage, ser_current>>
chanVars == <<last_valid_voltage, last_valid_current, voltage_reading,
              current_reading>>
integVars == <<power, energy_increment, capacity_increment,
               cumulative_energy_Wh, cumulative_capacity_mAh>>
clockVars == <<now, start_time>>
csvVars == <<csvExists, csvHeaders, csvRows, lastSample, persisted>>
exitVars == <<exitCause, exitAt>>
nominalVars == <<allNominal, allCurrent100, allNonNeg>>
bufVars == <<staleAccepted, dropped>>
histVars == <<started, cycles, fetches, everValid, lastRet, missed, missRun,
              nominalVars, readTook, restoreTried, bufVars>>

Channels == {"voltage", "current"}

\* Rows a log file left by an earlier run holds.
PreRows == 1

\* main(), lines 64-67, before the try block; the log file either does not
\* exist yet or was left by an earlier run with its header and PreRows rows.
Init ==
    /\ pc = "open_v"
    /\ ser_voltage = "unbound" /\ ser_current = "unbound"
    /\ last_valid_voltage = None /\ last_valid_current = None
    /\ voltage_reading = None /\ current_reading = None /\ power = None
    /\ energy_increment = None /\ capacity_increment = None
    /\ cumulative_energy_Wh = Num(0) /\ cumulative_capacity_mAh = Num(0)
    /\ now = 0 /\ start_time = 0
    /\ csvExists \in BOOLEAN
    /\ csvHeaders = (IF csvExists THEN 1 ELSE 0)
    /\ csvRows = (IF csvExists THEN PreRows ELSE 0)
    /\ lastSample = [voltage |-> None, current |-> None, power |-> None,
                     energy |-> None, capacity |-> None]
    /\ exitCause = "none" /\ exitAt = "none"
    /\ started = 0 /\ cycles = 0 /\ persisted = 0 /\ fetches = 0
    /\ everValid = {} /\ lastRet = [c \in Channels |-> None]
    /\ missed = {} /\ missRun = [c \in Channels |-> 0]
    /\ allNominal = TRUE /\ allCurrent100 = TRUE /\ allNonNeg = TRUE
    /\ readTook = 0 /\ restoreTried = {}
    /\ inbuf = [c \in Channels |-> "empty"]
    /\ staleAccepted = {} /\ dropped = {}

\* ------------------------------------------------------------ connecting
\* Line 71: ser_voltage = serial.Serial(VOLTAGE_PORT, ...) succeeds.
OpenVoltage ==
    /\ pc = "open_v"
    /\ ser_voltage' = "open"
    /\ pc' = "open_c"
    /\ UNCHANGED <<ser_current, chanVars, integVars, clockVars, csvVars,
                   histVars, exitVars>>
    /\ UNCHANGED inbuf

\* Lines 72-73: ser_current = serial.Serial(CURRENT_PORT, ...) succeeds.
OpenCurrent ==
    /\ pc = "open_c"
    /\ ser_current' = "open"
    /\ pc' = "idn"
    /\ UNCHANGED <<ser_voltage, chanVars, integVars, clockVars, csvVars,
                   histVars, exitVars>>
    /\ UNCHANGED inbuf

\* Lines 77-84: *IDN? on both ports; readline().decode() of a reply that is
\* no valid UTF-8 raises UnicodeDecodeError, which no except clause of main()
\* names: the finally block runs and the exception leaves main().
QueryIdn ==
    /\ pc = "idn"
    /\ \E reply \in {"text", "empty", "undecodable"} :
          IF reply = "undecodable"
          THEN /\ pc' = "finally_v"
               /\ exitCause' = "UnicodeDecodeError" /\ exitAt' = pc
          ELSE /\ pc' = "setup"
               /\ UNCHANGED exitVars
    /\ UNCHANGED <<serVars, chanVars, integVars, clockVars, csvVars, histVars>>
    /\ UNCHANGED inbuf

\* Lines 86-93: setup_instrument() on both ports.  Nothing reads the ports
\* here: whatever a meter answers stays in the port's input buffer.
SetupInstruments ==
    /\ pc = "setup"
    /\ pc' = "loop_start"
    /\ inbuf' \in [Channels -> {"empty", "stale"}]
    /\ UNCHANGED <<serVars, chanVars, integVars, clockVars, csvVars, histVars,
                   exitVars>>

\* --------------------------------------------------------------- running
\* Lines 95-96: the next iteration of `while True`; loop_start = time.time().
LoopStart ==
    /\ pc = "loop_start"
    /\ started < MaxCycles
    /\ now' = 0 /\ start_time' = 0
    /\ started' = started + 1
    /\ missed' = {} /\ readTook' = 0
    /\ pc' = "v_fetch"
    /\ UNCHANGED <<serVars, chanVars, integVars, csvVars, exitVars, cycles,
                   fetches, everValid, lastRet, missRun, nominalVars,
                   restoreTried>>
    /\ UNCHANGED <<inbuf, bufVars>>

\* The channel a position of the cycle works on.
ChanAt(at) == IF at \in {"v_fetch", "v_read"} THEN "voltage" ELSE "current"

\* Variant: the fetch is sent without reset_input_buffer().
FetchNoReset(at, next) ==
    /\ pc = at
    /\ fetches' = fetches + 1
    /\ now' = now + FetchSettle
    /\ start_time' = now + FetchSettle
    /\ readTook' = 0
    /\ dropped' = {}
    /\ pc' = next
    /\ UNCHANGED <<serVars, chanVars, integVars, csvVars, exitVars, started,
                   cycles, everValid, lastRet, missed, missRun, nominalVars,
                   restoreTried, inbuf, staleAccepted>>

\* Lines 99-102 and 114-117: reset_input_buffer(), write(:FETCh?),
\* time.sleep(0.2), then get_valid_reading() takes its start_time (line 40).
Fetch(at, next) ==
    /\ pc = at
    /\ inbuf' = [inbuf EXCEPT ![ChanAt(at)] = "empty"]
    /\ dropped' = (IF inbuf[ChanAt(at)] = "stale" THEN {ChanAt(at)} ELSE {})
    /\ fetches' = fetches + 1
    /\ now' = now + FetchSettle
    /\ start_time' = now + FetchSettle
    /\ readTook' = 0
    /\ pc' = next
    /\ UNCHANGED <<serVars, chanVars, integVars, csvVars, exitVars, started,
                   cycles, everValid, lastRet, missed, missRun, nominalVars,
                   restoreTried, staleAccepted>>

FetchVoltage == Fetch("v_fetch", "v_read")
FetchCurrent == Fetch("c_fetch", "c_read")

\* Line 41: the loop condition of get_valid_reading.
InWindow == (now - start_time) < ReadWindow

\* Lines 41-49: an iteration of get_valid_reading that returns nothing: the
\* line does not decode or parse (ValueError, continue), or readline() timed
\* out empty after the port timeout and the loop pauses PollSleep.  A line
\* that is in the input buffer already is returned by readline() at once.
ReadDiscard ==
    /\ pc \in {"v_read", "c_read"}
    /\ InWindow
    /\ \/ /\ inbuf[ChanAt(pc)] = "stale"
          /\ now' = now
       \/ /\ inbuf[ChanAt(pc)] = "empty"
          /\ \/ \E d \in LineDelays : now' = now + d
             \/ now' = now + TIMEOUT * TicksPerSecond + PollSleep
    /\ inbuf' = [inbuf EXCEPT ![ChanAt(pc)] = "empty"]
    /\ dropped' = {}
    /\ UNCHANGED <<pc, serVars, chanVars, integVars, start_time, csvVars,
                   exitVars, started, cycles, fetches, everValid, lastRet,
                   missed, missRun, nominalVars, readTook, restoreTried,
                   staleAccepted>>

\* Variant: a line that does not parse ends the read with None.
ReadResultsGivesUp(ch, replies) ==
    IF InWindow
    THEN {[ret |-> x, at |-> now + d, stale |-> FALSE] :
             x \in replies \cup {None}, d \in LineDelays}
    ELSE {[ret |-> None, at |-> now, stale |-> FALSE]}

\* The results get_valid_reading can return from the current state, with the
\* time each takes: a parsed reply while the window is open (line 45), taken
\* from the input buffer at once when a line is there, and None once the
\* loop condition fails (line 50).
ReadResults(ch, replies) ==
    IF InWindow
    THEN IF inbuf[ch] = "stale"
         THEN {[ret |-> x, at |-> now, stale |-> TRUE] : x \in replies}
         ELSE {[ret |-> x, at |-> now + d, stale |-> FALSE] :
                  x \in replies, d \in LineDelays}
    ELSE {[ret |-> None, at |-> now, stale |-> FALSE]}

\* Lines 103-111 and 118-126: the value the cycle uses and the new last valid
\* value, from the read's result and the previous last valid value.
\* Variant: a miss always yields NaN, the last valid value is not used.
ResolveNoFallback(reading, last_valid) ==
    IF reading # None
    THEN [value |-> reading, last_valid |-> reading]
    ELSE [value |-> NaN, last_valid |-> last_valid]

\* Variant: the last valid value is set by the first valid reading only.
ResolveKeepsFirst(reading, last_valid) ==
    IF reading # None
    THEN [value |-> reading,
          last_valid |-> IF last_valid # None THEN last_valid ELSE reading]
    ELSE IF last_valid # None
         THEN [value |-> last_valid, last_valid |-> last_valid]
         ELSE [value |-> NaN, last_valid |-> last_valid]

Resolve(reading, last_valid) ==
    IF reading # None
    THEN [value |-> reading, last_valid |-> reading]
    ELSE IF last_valid # None
         THEN [value |-> last_valid, last_valid |-> last_valid]
         ELSE [value |-> NaN, last_valid |-> last_valid]

\* History of a read that returned r on channel ch.
Returned(ch, r) ==
    /\ readTook' = r.at - start_time
    /\ everValid' = (IF r.ret # None THEN everValid \cup {ch} ELSE everValid)
    /\ lastRet' = (IF r.ret # None THEN [lastRet EXCEPT ![ch] = r.ret]
                   ELSE lastRet)
    /\ missed' = (IF r.ret = None THEN missed \cup {ch} ELSE missed)
    /\ missRun' = [missRun EXCEPT ![ch] = IF r.ret = None THEN @ + 1 ELSE 0]
    /\ staleAccepted' = (IF r.stale THEN staleAccepted \cup {ch}
                         ELSE staleAccepted)
    /\ inbuf' = (IF r.stale THEN [inbuf EXCEPT ![ch] = "empty"] ELSE inbuf)
    /\ dropped' = {}

\* Lines 102-111: voltage_reading = get_valid_reading(ser_voltage) returns and
\* the fallback is applied.
ReadVoltage ==
    /\ pc = "v_read"
    /\ \E r \in ReadResults("voltage", VoltageReplies) :
          /\ now' = r.at
          /\ voltage_reading' = Resolve(r.ret, last_valid_voltage).value
          /\ last_valid_voltage' = Resolve(r.ret, last_valid_voltage).last_valid
          /\ Returned("voltage", r)
    /\ start_time' = 0
    /\ pc' = "c_fetch"
    /\ UNCHANGED <<serVars, last_valid_current, current_reading, integVars,
                   csvVars, exitVars, started, cycles, fetches, nominalVars,
                   restoreTried>>

\* Variant: the current's fallback reads the voltage's last valid value.
ReadCurrentCoupled ==
    /\ pc = "c_read"
    /\ \E r \in ReadResults("current", CurrentReplies) :
          /\ now' = r.at
          /\ current_reading' = Resolve(r.ret, last_valid_voltage).value
          /\ last_valid_current' = Resolve(r.ret, last_valid_current).last_valid
          /\ Returned("current", r)
    /\ start_time' = 0
    /\ pc' = "integrate"
    /\ UNCHANGED <<serVars, last_valid_voltage, voltage_reading, integVars,
                   csvVars, exitVars, started, cycles, fetches, nominalVars,
                   restoreTried>>

\* Lines 117-126: the same for the current meter.
ReadCurrent ==
    /\ pc = "c_read"
    /\ \E r \in ReadResults("current", CurrentReplies) :
          /\ now' = r.at
          /\ current_reading' = Resolve(r.ret, last_valid_current).value
          /\ last_valid_current' = Resolve(r.ret, last_valid_current).last_valid
          /\ Returned("current", r)
    /\ start_time' = 0
    /\ pc' = "integrate"
    /\ UNCHANGED <<serVars, last_valid_voltage, voltage_reading, integVars,
                   csvVars, exitVars, started, cycles, fetches, nominalVars,
                   restoreTried>>

\* Variant: the power is added to the power of the cycle before.
PowerAccumulates(voltage, current) ==
    IF power = None THEN FMul(voltage, current)
    ELSE FAdd(power, FMul(voltage, current))

\* Line 129: power, NaN when a reading is None (it never is here).
Power(voltage, current) ==
    IF voltage # None /\ current # None THEN FMul(voltage, current) ELSE NaN

\* Variant: the energy increment without the NaN test.
EnergyIncrementNoGuard(p) == FMul(p, Num(INTERVAL))

\* Lines 133-136: the energy increment; `power == power` is false for NaN.
EnergyIncrement(p) ==
    IF FEq(p, p) THEN FMul(p, Num(INTERVAL)) ELSE Num(0)

\* Variant: the capacity increment is skipped when the voltage is NaN too.
CapacityIncrementNeedsVoltage(current) ==
    IF FEq(current, current) /\ FEq(voltage_reading, voltage_reading)
    THEN FMul(current, Num(INTERVAL)) ELSE Num(0)

\* Lines 140-143: the capacity increment (the current is in mA already).
CapacityIncrement(current) ==
    IF FEq(current, current) THEN FMul(current, Num(INTERVAL)) ELSE Num(0)

\* Variant: the totals are assigned (=) where the code adds (+=).
IntegrateAssigns ==
    /\ pc = "integrate"
    /\ power' = Power(voltage_reading, current_reading)
    /\ energy_increment' = EnergyIncrement(power')
    /\ cumulative_energy_Wh' = energy_increment'
    /\ capacity_increment' = CapacityIncrement(current_reading)
    /\ cumulative_capacity_mAh' = capacity_increment'
    /\ allNominal' = (allNominal /\ voltage_reading = Num(10)
                                  /\ current_reading = Num(100))
    /\ allCurrent100' = (allCurrent100 /\ current_reading = Num(100))
    /\ allNonNeg' = (allNonNeg /\ (IsNaN(power') \/ FLeq(Num(0), power')))
    /\ readTook' = 0
    /\ pc' = "log"
    /\ UNCHANGED <<serVars, chanVars, clockVars, csvVars, exitVars, started,
                   cycles, fetches, everValid, lastRet, missed, missRun,
                   restoreTried>>
    /\ UNCHANGED <<inbuf, bufVars>>

\* Lines 128-144: power, the two increments and the two running totals.
Integrate ==
    /\ pc = "integrate"
    /\ power' = Power(voltage_reading, current_reading)
    /\ energy_increment' = EnergyIncrement(power')
    /\ cumulative_energy_Wh' = FAdd(cumulative_energy_Wh, energy_increment')
    /\ capacity_increment' = CapacityIncrement(current_reading)
    /\ cumulative_capacity_mAh' =
           FAdd(cumulative_capacity_mAh, capacity_increment')
    /\ allNominal' = (allNominal /\ voltage_reading = Num(10)
                                  /\ current_reading = Num(100))
    /\ allCurrent100' = (allCurrent100 /\ current_reading = Num(100))
    /\ allNonNeg' = (allNonNeg /\ (IsNaN(power') \/ FLeq(Num(0), power')))
    /\ readTook' = 0
    /\ pc' = "log"
    /\ UNCHANGED <<serVars, chanVars, clockVars, csvVars, exitVars, started,
                   cycles, fetches, everValid, lastRet, missed, missRun,
                   restoreTried>>
    /\ UNCHANGED <<inbuf, bufVars>>

\* Variant: a cycle in which a read missed writes no row.
LogSampleSkipsOnMiss ==
    /\ pc = "log"
    /\ IF missed = {}
       THEN /\ csvHeaders' = (IF csvExists THEN csvHeaders ELSE csvHeaders + 1)
            /\ csvExists' = TRUE
            /\ csvRows' = csvRows + 1
            /\ persisted' = persisted + 1
            /\ lastSample' = [voltage |-> voltage_reading,
                              current |-> current_reading,
                              power |-> power,
                              energy |-> cumulative_energy_Wh,
                              capacity |-> cumulative_capacity_mAh]
       ELSE UNCHANGED csvVars
    /\ pc' = "pace"
    /\ UNCHANGED <<serVars, chanVars, integVars, clockVars, exitVars, histVars>>
    /\ UNCHANGED inbuf

\* Variant: every append writes the header (header=True).
LogSampleAlwaysHeader ==
    /\ pc = "log"
    /\ csvHeaders' = csvHeaders + 1
    /\ csvExists' = TRUE
    /\ csvRows' = csvRows + 1
    /\ persisted' = persisted + 1
    /\ lastSample' = [voltage |-> voltage_reading, current |-> current_reading,
                      power |-> power, energy |-> cumulative_energy_Wh,
                      capacity |-> cumulative_capacity_mAh]
    /\ pc' = "pace"
    /\ UNCHANGED <<serVars, chanVars, integVars, clockVars, exitVars, histVars>>
    /\ UNCHANGED inbuf

\* Variant: the row carries the cycle's energy increment, not the total.
LogSampleIncrement ==
    /\ pc = "log"
    /\ csvHeaders' = (IF csvExists THEN csvHeaders ELSE csvHeaders + 1)
    /\ csvExists' = TRUE
    /\ csvRows' = csvRows + 1
    /\ persisted' = persisted + 1
    /\ lastSample' = [voltage |-> voltage_reading, current |-> current_reading,
                      power |-> power, energy |-> energy_increment,
                      capacity |-> cumulative_capacity_mAh]
    /\ pc' = "pace"
    /\ UNCHANGED <<serVars, chanVars, integVars, clockVars, exitVars, histVars>>
    /\ UNCHANGED inbuf

\* Lines 29-33 and 146-150: log_data() appends the row, with the header when
\* the file does not exist yet.
LogSample ==
    /\ pc = "log"
    /\ csvHeaders' = (IF csvExists THEN csvHeaders ELSE csvHeaders + 1)
    /\ csvExists' = TRUE
    /\ csvRows' = csvRows + 1
    /\ persisted' = persisted + 1
    /\ lastSample' = [voltage |-> voltage_reading, current |-> current_reading,
                      power |-> power, energy |-> cumulative_energy_Wh,
                      capacity |-> cumulative_capacity_mAh]
    /\ pc' = "pace"
    /\ UNCHANGED <<serVars, chanVars, integVars, clockVars, exitVars, histVars>>
    /\ UNCHANGED inbuf

\* Variant: the sleep time without the max(0, ...).
SleepTimeNoFloor(elapsed) == INTERVAL * TicksPerSecond - elapsed

\* Line 154: sleep_time = max(0, INTERVAL - elapsed), in ticks.
SleepTime(elapsed) ==
    IF INTERVAL * TicksPerSecond - elapsed > 0
    THEN INTERVAL * TicksPerSecond - elapsed ELSE 0

\* Lines 152-155: the cadence sleep that ends the cycle.  Lines the meters
\* sent since their reads returned (late or extra replies) are in the input
\* buffers by now; nothing has read the ports in between.
Pace ==
    /\ pc = "pace"
    /\ now' = now + SleepTime(now)
    /\ inbuf' \in [Channels -> {"empty", "stale"}]
    /\ cycles' = cycles + 1
    /\ pc' = "loop_start"
    /\ UNCHANGED <<serVars, chanVars, integVars, start_time, csvVars, exitVars,
                   started, fetches, everValid, lastRet, missed, missRun,
                   nominalVars, readTook, restoreTried, bufVars>>

\* -------------------------------------------------------------- leaving
\* Positions inside the try block (lines 69-155).
TryPcs == {"open_v", "open_c", "idn", "setup", "loop_start", "v_fetch",
           "v_read", "c_fetch", "c_read", "integrate", "log", "pace"}

\* Positions whose statements use a serial port and can raise
\* serial.SerialException.
SerialPcs == {"open_v", "open_c", "idn", "setup", "v_fetch", "v_read",
              "c_fetch", "c_read"}

\* Positions between the start of a cycle and its end.
MidCycle == {"v_fetch", "v_read", "c_fetch", "c_read", "integrate", "log",
             "pace"}

\* Variant: the interrupt is only noted inside a cycle and acted on at the
\* cycle boundary.
InterruptDeferred ==
    /\ pc \in TryPcs
    /\ exitCause' = "KeyboardInterrupt" /\ exitAt' = pc
    /\ pc' = (IF pc \in MidCycle THEN pc ELSE "finally_v")
    /\ UNCHANGED <<serVars, chanVars, integVars, clockVars, csvVars, histVars>>
    /\ UNCHANGED inbuf

\* Lines 157-158: Ctrl+C raises KeyboardInterrupt in the statement main() is
\* executing; the except clause prints and the finally block follows.
Interrupt ==
    /\ pc \in TryPcs
    /\ exitCause' = "KeyboardInterrupt" /\ exitAt' = pc
    /\ pc' = "finally_v"
    /\ UNCHANGED <<serVars, chanVars, integVars, clockVars, csvVars, histVars>>
    /\ UNCHANGED inbuf

\* Variant: a serial error inside a cycle restarts the cycle's fetch.
SerialErrorRetries ==
    /\ pc \in SerialPcs
    /\ exitCause' = "SerialException" /\ exitAt' = pc
    /\ pc' = (IF pc \in MidCycle THEN "v_fetch" ELSE "finally_v")
    /\ UNCHANGED <<serVars, chanVars, integVars, clockVars, csvVars, histVars>>
    /\ UNCHANGED inbuf

\* Lines 159-160: a serial call raises serial.SerialException; the except
\* clause prints and the finally block follows.  A Serial() that raises
\* leaves its variable unbound.
SerialError ==
    /\ pc \in SerialPcs
    /\ exitCause' = "SerialException" /\ exitAt' = pc
    /\ pc' = "finally_v"
    /\ UNCHANGED <<serVars, chanVars, integVars, clockVars, csvVars, histVars>>
    /\ UNCHANGED inbuf

\* Lines 162-164: the voltage port, when bound and open, is sent
\* :DISP:ENAB 1 and closed; otherwise it is skipped.
FinallyVoltage ==
    /\ pc = "finally_v"
    /\ IF ser_voltage = "open"
       THEN /\ restoreTried' = restoreTried \cup {"voltage"}
            /\ ser_voltage' = "closed"
       ELSE UNCHANGED <<restoreTried, ser_voltage>>
    /\ pc' = "finally_c"
    /\ UNCHANGED <<ser_current, chanVars, integVars, clockVars, csvVars,
                   exitVars, started, cycles, fetches, everValid, lastRet,
                   missed, missRun, nominalVars, readTook>>
    /\ UNCHANGED <<inbuf, bufVars>>

\* Lines 163-164 raising: the write or the close of the voltage port raises
\* inside the finally block, where nothing catches it: the exception leaves
\* main() and lines 165-168 are not executed.
FinallyVoltageRaises ==
    /\ pc = "finally_v"
    /\ ser_voltage = "open"
    /\ restoreTried' = restoreTried \cup {"voltage"}
    /\ pc' = "raised"
    /\ UNCHANGED <<serVars, chanVars, integVars, clockVars, csvVars, exitVars,
                   started, cycles, fetches, everValid, lastRet, missed,
                   missRun, nominalVars, readTook>>
    /\ UNCHANGED <<inbuf, bufVars>>

\* Lines 165-168: the same for the current port, then the closing message;
\* an exception no except clause caught is re-raised after the finally block.
FinallyCurrent ==
    /\ pc = "finally_c"
    /\ IF ser_current = "open"
       THEN /\ restoreTried' = restoreTried \cup {"current"}
            /\ ser_current' = "closed"
       ELSE UNCHANGED <<restoreTried, ser_current>>
    /\ pc' = (IF exitCause = "UnicodeDecodeError" THEN "raised" ELSE "done")
    /\ UNCHANGED <<ser_voltage, chanVars, integVars, clockVars, csvVars,
                   exitVars, started, cycles, fetches, everValid, lastRet,
                   missed, missRun, nominalVars, readTook>>
    /\ UNCHANGED <<inbuf, bufVars>>

\* Lines 166-167 raising inside the finally block.
FinallyCurrentRaises ==
    /\ pc = "finally_c"
    /\ ser_current = "open"
    /\ restoreTried' = restoreTried \cup {"current"}
    /\ pc' = "raised"
    /\ UNCHANGED <<serVars, chanVars, integVars, clockVars, csvVars, exitVars,
                   started, cycles, fetches, everValid, lastRet, missed,
                   missRun, nominalVars, readTook>>
    /\ UNCHANGED <<inbuf, bufVars>>

Next ==
    \/ OpenVoltage \/ OpenCurrent \/ QueryIdn \/ SetupInstruments
    \/ LoopStart \/ FetchVoltage \/ ReadDiscard \/ ReadVoltage
    \/ FetchCurrent \/ ReadCurrent \/ Integrate \/ LogSample \/ Pace
    \/ Interrupt \/ SerialError
    \/ FinallyVoltage \/ FinallyVoltageRaises
    \/ FinallyCurrent \/ FinallyCurrentRaises

Spec == Init /\ [][Next]_vars

\* ================================================================ claims
\* Positions of the current cycle after the voltage was resolved, after the
\* current was resolved, and after the totals were updated.
AfterVoltage == pc \in {"c_fetch", "c_read", "integrate", "log", "pace"}
AfterCurrent == pc \in {"integrate", "log", "pace"}
AfterIntegrate == pc \in {"log", "pace"}

\* The channel's read of this cycle returned None after an earlier read of the
\* channel had returned a value.
Stale(ch) == ch \in missed /\ ch \in everValid

\* C1: a channel whose read returned r and then returned nothing in each of
\* the next N cycles uses r, unchanged, in each of those cycles: as the
\* cycle's reading, in the power, in the capacity increment and in the row
\* that is persisted.
C1_StaleValueIsLastReading ==
    /\ (AfterVoltage /\ Stale("voltage"))
          => voltage_reading = lastRet["voltage"]
    /\ (AfterCurrent /\ Stale("current"))
          => current_reading = lastRet["current"]
    /\ (AfterIntegrate /\ Stale("voltage"))
          => power = FMul(lastRet["voltage"], current_reading)
    /\ (AfterIntegrate /\ Stale("current"))
          => /\ power = FMul(voltage_reading, lastRet["current"])
             /\ capacity_increment = CapacityIncrement(lastRet["current"])
    /\ (pc = "pace" /\ Stale("voltage"))
          => lastSample.voltage = lastRet["voltage"]
    /\ (pc = "pace" /\ Stale("current"))
          => lastSample.current = lastRet["current"]

\* C1 witness: the second miss in a row of both channels, after 10 V and
\* -100 mA were read, has been persisted.
C1_Witness ==
    /\ pc = "pace"
    /\ missRun["voltage"] = 2 /\ missRun["current"] = 2
    /\ lastRet["voltage"] = Num(10) /\ lastRet["current"] = Num(-100)
    /\ lastSample.voltage = Num(10) /\ lastSample.current = Num(-100)

\* C2: a channel whose read has never returned a value has the reading NaN
\* in every cycle; the energy increment is 0 whenever the voltage or the
\* current of the cycle is NaN and the capacity increment is 0 whenever the
\* current is NaN.
C2_NeverValidIsNaNAndAddsZero ==
    /\ (AfterVoltage /\ "voltage" \notin everValid) => IsNaN(voltage_reading)
    /\ (AfterCurrent /\ "current" \notin everValid) => IsNaN(current_reading)
    /\ (AfterIntegrate /\ (IsNaN(voltage_reading) \/ IsNaN(current_reading)))
          => energy_increment = Num(0)
    /\ (AfterIntegrate /\ IsNaN(current_reading))
          => capacity_increment = Num(0)

\* C2 witness: the second cycle in which neither channel has ever returned a
\* value has been integrated.
C2_Witness ==
    /\ pc = "log" /\ started = 2
    /\ everValid = {}
    /\ IsNaN(voltage_reading) /\ IsNaN(current_reading) /\ IsNaN(power)
    /\ cumulative_energy_Wh = Num(0) /\ cumulative_capacity_mAh = Num(0)

\* C3: a channel's last valid value is set exactly when a read of the channel
\* has returned a value, and then it is the value the channel's read returned
\* last.
C3_LastValidSetIffEverValid ==
    /\ (last_valid_voltage # None) <=> ("voltage" \in everValid)
    /\ (last_valid_current # None) <=> ("current" \in everValid)
    /\ ("voltage" \in everValid) => last_valid_voltage = lastRet["voltage"]
    /\ ("current" \in everValid) => last_valid_current = lastRet["current"]

\* C3 witness: the current meter answered 100 mA and later -100 mA and then
\* missed, the voltage meter never answered.
C3_Witness ==
    /\ started = 3 /\ pc = "integrate"
    /\ last_valid_voltage = None
    /\ last_valid_current = Num(-100)
    /\ missRun["current"] = 1
    /\ cumulative_capacity_mAh = Num(0)

\* C4: every call of get_valid_reading returns within its wait window of
\* ReadWindow ticks (0.8 s).
C4_ReadReturnsWithinWindow ==
    (pc \in {"c_fetch", "integrate"}) => readTook <= ReadWindow

C6_TeardownPerChannel ==
    (pc \in {"done", "raised"})
       => /\ (ser_voltage # "unbound") => ("voltage" \in restoreTried)
          /\ (ser_current # "unbound") => ("current" \in restoreTried)

\* C7: a serial.SerialException leaves the try block at once: the rows
\* persisted are those of the cycles completed before it, and after it no
\* fetch is sent, no sample is persisted and the loop is not re-entered.
C7_SerialErrorEndsLoop ==
    [][(exitCause' = "SerialException")
          => /\ pc' \notin TryPcs
             /\ persisted' = cycles'
             /\ persisted' = persisted
             /\ fetches' = fetches]_vars

\* C7 witness: the current meter's read of the third cycle raised; two rows
\* are persisted and teardown has run.
C7_Witness ==
    /\ pc = "done"
    /\ exitCause = "SerialException" /\ exitAt = "c_read"
    /\ started = 3 /\ cycles = 2 /\ persisted = 2
    /\ fetches = 6

\* C8 as stated: no cycle's energy or capacity increment is negative.
C8_IncrementsNeverNegative ==
    AfterIntegrate => /\ FLeq(Num(0), energy_increment)
                      /\ FLeq(Num(0), capacity_increment)

\* The value is NaN or not below zero.
NaNOrNonNeg(x) == IsNaN(x) \/ FLeq(Num(0), x)

\* C8 as amended: a cycle whose power is NaN or non-negative does not lower
\* cumulative_energy_Wh and a cycle whose current is NaN or non-negative does
\* not lower cumulative_capacity_mAh (a total that is or becomes NaN compares
\* with nothing and is left out).
C8_NonDecreasingWhenNonNegative ==
    [][(pc = "integrate" /\ pc' = "log")
          => /\ (/\ NaNOrNonNeg(power')
                 /\ ~IsNaN(cumulative_energy_Wh)
                 /\ ~IsNaN(cumulative_energy_Wh'))
                => FLeq(cumulative_energy_Wh, cumulative_energy_Wh')
             /\ (/\ NaNOrNonNeg(current_reading)
                 /\ ~IsNaN(cumulative_capacity_mAh)
                 /\ ~IsNaN(cumulative_capacity_mAh'))
                => FLeq(cumulative_capacity_mAh, cumulative_capacity_mAh')]_vars

\* C8 witness: after two cycles of 10 V and 100 mA a third cycle of the same
\* readings has raised both totals.
C8_Witness ==
    /\ pc = "log" /\ started = 3
    /\ power = Num(1000) /\ energy_increment = Num(1000)
    /\ cumulative_energy_Wh = Num(3000)
    /\ current_reading = Num(100) /\ cumulative_capacity_mAh = Num(300)

\* C9: cumulative_energy_Wh starts at 0; each cycle adds power * INTERVAL
\* (over 3600) when the power is not NaN and 0 when it is; it does not
\* decrease while every cycle's power is NaN or non-negative; with 10 V and
\* 100 mA in every cycle the row persisted by cycle T holds T * 10 * 100
\* (over 3600 * 1000, that is T * (10 * 0.1) / 3600 Wh).
C9_EnergyAccumulator ==
    /\ [](started = 0 => cumulative_energy_Wh = Num(0))
    /\ [][(pc = "integrate" /\ pc' = "log")
             => /\ power' = FMul(voltage_reading, current_reading)
                /\ cumulative_energy_Wh' =
                      FAdd(cumulative_energy_Wh,
                           IF IsNaN(power') THEN Num(0)
                           ELSE FMul(power', Num(INTERVAL)))
                /\ allNonNeg'
                      => FLeq(cumulative_energy_Wh, cumulative_energy_Wh')]_vars
    /\ []((pc = "pace" /\ allNominal)
             => lastSample.energy = Num(persisted * 10 * 100 * INTERVAL))

\* C9 witness: the third cycle of 10 V and 100 mA has been persisted.
C9_Witness ==
    /\ pc = "pace" /\ allNominal /\ persisted = 3
    /\ lastSample.energy = Num(3000)

\* C10: cumulative_capacity_mAh depends on the current alone: each cycle adds
\* current * INTERVAL (over 3600) when the current is not NaN, whatever the
\* voltage and the power are, and 0 when it is NaN; with 100 mA in every
\* cycle the row persisted by cycle T holds T * 100 (over 3600 mAh).
C10_CapacityAccumulator ==
    /\ [](started = 0 => cumulative_capacity_mAh = Num(0))
    /\ [][(pc = "integrate" /\ pc' = "log")
             => cumulative_capacity_mAh' =
                   FAdd(cumulative_capacity_mAh,
                        IF IsNaN(current_reading) THEN Num(0)
                        ELSE FMul(current_reading, Num(INTERVAL)))]_vars
    /\ []((pc = "pace" /\ allCurrent100)
             => lastSample.capacity = Num(persisted * 100 * INTERVAL))

\* C10 witness: three cycles of 100 mA were persisted while the voltage, and
\* so the power, was NaN in each.
C10_Witness ==
    /\ pc = "pace" /\ allCurrent100 /\ persisted = 3
    /\ "voltage" \notin everValid /\ IsNaN(lastSample.power)
    /\ lastSample.capacity = Num(300)
    /\ lastSample.energy = Num(0)

\* C11: the power of a cycle, as computed and as written to the row, is the
\* product of the voltage and the current of that same cycle, NaN when either
\* of them is NaN; it does not carry the power of an earlier cycle.
C11_PowerIsProductOfCycle ==
    /\ AfterIntegrate
          => /\ power = FMul(voltage_reading, current_reading)
             /\ (IsNaN(voltage_reading) \/ IsNaN(current_reading))
                   => IsNaN(power)
    /\ (pc = "pace")
          => /\ lastSample.power =
                   FMul(lastSample.voltage, lastSample.current)
             /\ lastSample.voltage = voltage_reading
             /\ lastSample.current = current_reading

\* C11 witness: the third row holds 10 V * -100 mA after two cycles whose
\* power was 10 V * 100 mA.
C11_Witness ==
    /\ pc = "pace" /\ persisted = 3
    /\ lastSample.power = Num(-1000)
    /\ lastSample.voltage = Num(10) /\ lastSample.current = Num(-100)
    /\ cumulative_energy_Wh = Num(1000)

\* C12: the identity reply, whatever it is, never ends the run: the try block
\* is left from the connecting phase only by a failed open, a serial error or
\* an interrupt; after a failed open no fetch was sent and no row written.
C12_IdentityReplyNonFatal ==
    /\ exitCause \in {"none", "KeyboardInterrupt", "SerialException"}
    /\ (exitAt \in {"open_v", "open_c"}) => (fetches = 0 /\ persisted = 0)

\* C13: the step that ends a cycle sleeps max(0, INTERVAL - elapsed), where
\* elapsed is the time since the cycle's start: never a negative time; a
\* cycle that took less than INTERVAL ends exactly INTERVAL after its start,
\* a cycle that took INTERVAL or more ends without sleeping.
C13_CadenceSleep ==
    [][(pc = "pace" /\ pc' = "loop_start")
          => /\ now' - now >= 0
             /\ (now < INTERVAL * TicksPerSecond)
                   => now' = INTERVAL * TicksPerSecond
             /\ (now >= INTERVAL * TicksPerSecond) => now' = now]_vars

\* C13 witness: a second cycle in which both reads missed took longer than
\* INTERVAL and ended without a sleep.
C13_Witness ==
    /\ pc = "loop_start" /\ cycles = 2
    /\ missed = Channels
    /\ now > INTERVAL * TicksPerSecond

\* C14: an append writes the header exactly when the file does not exist at
\* that moment and adds exactly one data row; nothing else touches the file;
\* so the file never holds more than one header, whether the run created it
\* or an earlier run left it.
C14_HeaderWrittenOnce ==
    /\ [](csvHeaders <= 1)
    /\ [][IF pc = "log" /\ pc' = "pace"
          THEN /\ csvExists'
               /\ csvRows' = csvRows + 1
               /\ csvHeaders' = (IF csvExists THEN csvHeaders
                                 ELSE csvHeaders + 1)
          ELSE UNCHANGED <<csvExists, csvHeaders, csvRows>>]_vars

\* C14 witness: three rows were appended to a file an earlier run had left
\* with its header and PreRows rows.
C14_Witness ==
    /\ persisted = 3
    /\ csvRows = PreRows + 3
    /\ csvHeaders = 1

\* C15: while no serial error and no interrupt has occurred, every cycle
\* writes exactly one row, whatever its two reads returned: a cycle that has
\* reached its cadence sleep or ended has its row, a cycle still before its
\* persist step has the rows of the cycles before it, and the cycle can
\* always take its next step.
C15_MissNeverAbortsCycle ==
    (exitCause = "none")
       => /\ (pc = "pace") => (persisted = started /\ cycles = started - 1)
          /\ (pc = "loop_start")
                => (persisted = started /\ cycles = started)
          /\ (pc \in MidCycle \ {"pace"})
                => (persisted = started - 1 /\ cycles = started - 1)
          /\ (pc \in MidCycle)
                => ENABLED (\/ FetchVoltage \/ ReadDiscard \/ ReadVoltage
                            \/ FetchCurrent \/ ReadCurrent \/ Integrate
                            \/ LogSample \/ Pace)

\* C15 witness: three cycles in which neither meter ever answered have ended,
\* each with its row.
C15_Witness ==
    /\ pc = "loop_start" /\ exitCause = "none"
    /\ cycles = 3 /\ persisted = 3
    /\ everValid = {}
    /\ IsNaN(lastSample.voltage) /\ IsNaN(lastSample.current)

\* C16: inside the window a line that does not decode or parse is dropped
\* and the read goes on, changing no reading; the read returns the first line
\* that parses, as the channel's value; it returns None only when the window
\* has ended.
C16_FirstParseableLineWins ==
    [][/\ (pc \in {"v_read", "c_read"} /\ pc' = pc)
             => /\ InWindow
                /\ now' >= now
                /\ UNCHANGED <<chanVars, everValid, lastRet, missed>>
       /\ (pc = "v_read" /\ pc' = "c_fetch")
             => IF InWindow
                THEN /\ "voltage" \notin missed'
                     /\ lastRet'["voltage"] \in VoltageReplies
                     /\ voltage_reading' = lastRet'["voltage"]
                ELSE "voltage" \in missed'
       /\ (pc = "c_read" /\ pc' = "integrate")
             => IF InWindow
                THEN /\ "current" \notin missed'
                     /\ lastRet'["current"] \in CurrentReplies
                     /\ current_reading' = lastRet'["current"]
                ELSE "current" \in missed']_vars

\* C16 witness: the voltage read dropped two lines and returned the third,
\* 10 V, after three line delays (15 ticks), inside its window.
C16_Witness ==
    /\ pc = "c_fetch"
    /\ "voltage" \notin missed
    /\ readTook = 15 /\ readTook <= ReadWindow
    /\ voltage_reading = Num(10)

\* The fallback of lines 103-111 as a function of the channel's own read
\* result (miss or value) and its own last valid value.
OwnValue(miss, ret, last_valid) ==
    IF ~miss THEN ret ELSE IF last_valid # None THEN last_valid ELSE NaN

\* C17: a channel's reading and last valid value change only when that
\* channel's read returns, and then they follow from that read's result and
\* the channel's own last valid value; the other channel's are left alone.
C17_NoCrossChannelCoupling ==
    [][IF pc = "v_read" /\ pc' = "c_fetch"
       THEN /\ UNCHANGED <<last_valid_current, current_reading>>
            /\ voltage_reading' =
                  OwnValue("voltage" \in missed', lastRet'["voltage"],
                           last_valid_voltage)
            /\ last_valid_voltage' =
                  (IF "voltage" \in missed' THEN last_valid_voltage
                   ELSE lastRet'["voltage"])
       ELSE IF pc = "c_read" /\ pc' = "integrate"
       THEN /\ UNCHANGED <<last_valid_voltage, voltage_reading>>
            /\ current_reading' =
                  OwnValue("current" \in missed', lastRet'["current"],
                           last_valid_current)
            /\ last_valid_current' =
                  (IF "current" \in missed' THEN last_valid_current
                   ELSE lastRet'["current"])
       ELSE UNCHANGED chanVars]_vars

\* C17 witness: in the second cycle the voltage missed and fell back to its
\* own 10 V while the current, which has never answered, missed and got NaN:
\* neither channel took the other's value.
C17_Witness ==
    /\ pc = "integrate" /\ started = 2
    /\ "voltage" \in missed /\ voltage_reading = Num(10)
    /\ last_valid_voltage = Num(10)
    /\ "current" \in missed /\ last_valid_current = None
    /\ IsNaN(current_reading)

\* The order of the positions of the try block.
StepOrder ==
    {<<"open_v", "open_c">>, <<"open_c", "idn">>, <<"idn", "setup">>,
     <<"setup", "loop_start">>, <<"loop_start", "v_fetch">>,
     <<"v_fetch", "v_read">>, <<"v_read", "v_read">>, <<"v_read", "c_fetch">>,
     <<"c_fetch", "c_read">>, <<"c_read", "c_read">>,
     <<"c_read", "integrate">>, <<"integrate", "log">>, <<"log", "pace">>,
     <<"pace", "loop_start">>}

\* C18: a cycle clears the voltage port's input and sends its fetch, reads
\* and resolves the voltage, then does the same for the current, and only
\* then integrates and persists; a line that was in a port's input buffer
\* before the cycle's clear is never returned by the cycle's read.
C18_ClearFetchReadInOrder ==
    /\ [](staleAccepted = {})
    /\ []((pc = "v_read") => inbuf["voltage"] = "empty")
    /\ []((pc = "c_read") => inbuf["current"] = "empty")
    /\ [][(exitCause' = "none") => <<pc, pc'>> \in StepOrder]_vars
    /\ [][(pc = "v_fetch" /\ pc' = "v_read")
             => (fetches' = fetches + 1 /\ persisted' = persisted)]_vars
    /\ [][(pc = "c_fetch" /\ pc' = "c_read")
             => (fetches' = fetches + 1 /\ persisted' = persisted
                 /\ "current" \notin missed /\ UNCHANGED chanVars)]_vars
    /\ [][(persisted' # persisted)
             => (pc = "log" /\ fetches = 2 * started
                 /\ UNCHANGED <<chanVars, integVars>>)]_vars

\* C18 witness: the second cycle's clear has just dropped a line that was in
\* the voltage port's buffer, and the read starts on an empty buffer.
C18_Witness ==
    /\ pc = "v_read" /\ started = 2
    /\ dropped = {"voltage"}
    /\ inbuf["voltage"] = "empty"
    /\ inbuf["current"] = "stale"
    /\ staleAccepted = {}

\* C19: cumulative_energy_Wh and cumulative_capacity_mAh are never NaN.
C19_TotalsNeverNaN ==
    /\ ~IsNaN(cumulative_energy_Wh)
    /\ ~IsNaN(cumulative_capacity_mAh)

\* C20: once a channel's read has returned a value, the channel's reading is
\* not NaN in that cycle or in any later one.
C20_ReturnedValueIsNeverNaN ==
    /\ (AfterVoltage /\ "voltage" \in everValid) => ~IsNaN(voltage_reading)
    /\ (AfterCurrent /\ "current" \in everValid) => ~IsNaN(current_reading)

====
